---- MODULE Spec2Model ----
(***************************************************************************)
(* Model of the Maho extension builder: the command-line entry point of    *)
(* generate-module.py with generate_module, the configuration validation   *)
(* of lib/config.py, the conflict checks, and the introspector's           *)
(* save_results.                                                           *)
(*                                                                         *)
(* Python dictionaries are functions whose DOMAIN is the set of keys that  *)
(* are present; lists are sequences; a str that the code inspects          *)
(* character by character (the namespace) is a sequence of characters.     *)
(***************************************************************************)
EXTENDS Integers, Sequences, FiniteSets, TLC

(***************************************************************************)
(* Bounds of the model.                                                    *)
(***************************************************************************)
MaxEntities == 2
MaxExisting == 1

(***************************************************************************)
(* Dictionary helpers: `k in d`, d.get(k, default), d[k] = v.              *)
(***************************************************************************)
EmptyDict == [k \in {} |-> 0]

Has(d, k) == k \in DOMAIN d

Get(d, k, default) == IF k \in DOMAIN d THEN d[k] ELSE default

Put(d, k, v) == [j \in DOMAIN d \cup {k} |-> IF j = k THEN v ELSE d[j]]

(***************************************************************************)
(* str.lower() and str.capitalize() on the names the model uses.           *)
(***************************************************************************)
Lower(s) ==
    CASE s = "Blog" -> "blog"
      [] s = "Post" -> "post"
      [] OTHER -> s

Capitalize(s) ==
    CASE s = "category" -> "Category"
      [] s = "tag" -> "Tag"
      [] s = "post" -> "Post"
      [] s = "blog" -> "Blog"
      [] OTHER -> s

IdFieldName(entity_name) ==
    CASE entity_name = "Post" -> "Post_id"
      [] entity_name = "category" -> "category_id"
      [] entity_name = "tag" -> "tag_id"
      [] entity_name = "post" -> "post_id"
      [] entity_name = "author" -> "author_id"
      [] OTHER -> "_id"

(***************************************************************************)
(* Namespaces as character sequences, and the PascalCase format test       *)
(*   namespace.replace('_', '').isalnum() and namespace[0].isupper()       *)
(***************************************************************************)
UpperChars == {"A", "M", "X"}
LowerChars == {"a", "b", "c", "e", "h", "m", "o"}
DigitChars == {"1"}

NsMaho == <<"M", "a", "h", "o">>
NsMage == <<"M", "a", "g", "e">>
NsCustom == <<"C", "u", "s", "t", "o", "m">>
NsLocal == <<"L", "o", "c", "a", "l">>
NsAcme == <<"A", "c", "m", "e">>
NsLowerAcme == <<"a", "c", "m", "e">>
NsDash == <<"A", "-", "b">>

IsAlnumChar(c) == c \in UpperChars \cup LowerChars \cup DigitChars

IsAlnum(s) == Len(s) > 0 /\ \A i \in 1..Len(s) : IsAlnumChar(s[i])

ReplaceUnderscore(s) == SelectSeq(s, LAMBDA c : c # "_")

ValidNamespaceFormat(ns) == IsAlnum(ReplaceUnderscore(ns)) /\ ns[1] \in UpperChars

get_code_pool(namespace) ==
    IF namespace = NsMaho \/ namespace = NsMage THEN "core"
    ELSE IF namespace \in {NsCustom, NsLocal} THEN "local"
    ELSE "community"

(***************************************************************************)
(* lib/config.py: validate_config.  The error list is a sequence of error  *)
(* tags, one per errors.append of the source.                              *)
(***************************************************************************)
valid_types ==
    {"int", "smallint", "bigint", "tinyint", "varchar", "text", "mediumtext",
     "longtext", "decimal", "float", "double", "datetime", "date", "timestamp",
     "boolean", "bool"}

RECURSIVE FlattenSeq(_)
FlattenSeq(ss) == IF ss = <<>> THEN <<>> ELSE Head(ss) \o FlattenSeq(Tail(ss))

FieldErrors(field) ==
    (IF ~Has(field, "name") THEN <<"field_name">> ELSE <<>>)
    \o (IF Has(field, "type") /\ field["type"] \notin valid_types
        THEN <<"field_type">> ELSE <<>>)

\* Mutant: relationships are not validated.
RelationshipErrors_unchecked(rel) == <<>>

RelationshipErrors(rel) ==
    (IF ~Has(rel, "target") THEN <<"rel_target">> ELSE <<>>)
    \o (IF Has(rel, "type") /\ rel["type"] \notin {"one_to_many", "many_to_many"}
        THEN <<"rel_type">> ELSE <<>>)

EntityErrors(entity) ==
    (IF ~Has(entity, "name") THEN <<"entity_name">> ELSE <<>>)
    \o (IF ~Has(entity, "fields") \/ entity["fields"] = <<>>
        THEN <<"entity_fields">>
        ELSE FlattenSeq([i \in 1..Len(entity["fields"]) |->
                            FieldErrors(entity["fields"][i])]))
    \o (IF Has(entity, "relationships")
        THEN FlattenSeq([i \in 1..Len(entity["relationships"]) |->
                            RelationshipErrors(entity["relationships"][i])])
        ELSE <<>>)

validate_config_errors(cfg) ==
    (IF ~Has(cfg, "name") THEN <<"name">> ELSE <<>>)
    \o (IF ~Has(cfg, "namespace") THEN <<"namespace">> ELSE <<>>)
    \o (IF ~Has(cfg, "entities") \/ cfg["entities"] = <<>>
        THEN <<"entities">>
        ELSE FlattenSeq([i \in 1..Len(cfg["entities"]) |->
                            EntityErrors(cfg["entities"][i])]))

validate_config(cfg) ==
    <<Len(validate_config_errors(cfg)) = 0, validate_config_errors(cfg)>>

(***************************************************************************)
(* The configurations the runs start from.                                 *)
(***************************************************************************)
FTitle == [name |-> "title"]
FName == [name |-> "name", type |-> "varchar"]
FNoName == [type |-> "blob"]

EPost == [name |-> "Post", fields |-> <<FTitle>>]
ECategory ==
    [name |-> "category", fields |-> <<FName>>,
     frontend |-> [enabled |-> TRUE,
                   sidebar_blocks |-> <<[type |-> "recent"], [entity |-> "Post"]>>]]
ENoName == [fields |-> <<FTitle>>]
EBadField == [name |-> "tag", fields |-> <<FTitle, FNoName>>]

GoodEntities == {EPost, ECategory}
BadEntities == {ENoName, EBadField}

\* Lists of distinct entities with at most one malformed entity.
EntityLists ==
    UNION {
        {s \in [1..n -> GoodEntities \cup BadEntities] :
            /\ \A i, j \in 1..n : i # j => s[i] # s[j]
            /\ Cardinality({i \in 1..n : s[i] \in BadEntities}) <= 1}
        : n \in 0..MaxEntities}

WithKeys(d, keys) == [k \in DOMAIN d \cap keys |-> d[k]]

TopKeySets ==
    {ks \cup opt : ks \in {{"name", "module"}, {"name"}, {"module"}},
                   opt \in SUBSET {"namespace", "frontend_route"}}

Configs ==
    {WithKeys([name |-> "Blog", module |-> "Blog", namespace |-> NsLowerAcme,
               frontend_route |-> "news", entities |-> es],
              ks \cup {"entities"}) : ks \in TopKeySets, es \in EntityLists}
    \cup
    {WithKeys([name |-> "Blog", module |-> "Blog", namespace |-> NsLowerAcme,
               frontend_route |-> "news"], ks) : ks \in TopKeySets}

(***************************************************************************)
(* The directories a run touches.  BasePath is the directory five levels   *)
(* above lib/utils.py, which is three levels above the tool's own          *)
(* directory ("skill"); Up3 is the path prefix "../../../".                *)
(***************************************************************************)
Dirs == {"root", "skill", "outside"}
CwdChoices == {"root", "skill"}
BasePath == "root"

Up3(dir) == IF dir = "skill" THEN "root" ELSE "outside"

Routes == {"blog", "news"}

ExistingChoices ==
    {ex \in SUBSET ([root : CwdChoices, kind : {"decl", "dir"}]) :
        Cardinality(ex) <= MaxExisting}

(***************************************************************************)
(* State of one run of generate-module.py.                                 *)
(*   config        the configuration dictionary (mutated by the run)       *)
(*   cwd           the working directory the run is started in             *)
(*   existing      module declaration files / module directories of the    *)
(*                 module being generated that exist before the run        *)
(*   takenRoutes   frontNames declared by the config.xml files that        *)
(*                 check_frontend_route_conflict scans from cwd            *)
(*   isatty        sys.stdin.isatty()                                      *)
(*   pc            position of the script                                  *)
(*   namespace     local `namespace` of prompt_for_namespace               *)
(*   front_name    local `front_name` of generate_module                   *)
(*   alt_route     last answer read at the alternative-route prompt        *)
(*   entity_idx    index of the entity loop of step 5 (0-based as Python)  *)
(*   files_created the list generate_module returns                        *)
(*   written       every file write performed so far, in order             *)
(*   config_xml    frontName of the <frontend><routers> section written to *)
(*                 etc/config.xml (NoFile before it is written)            *)
(*   status        exit status of the process (-1 while running)           *)
(*   error         what ended the run                                      *)
(*   called        TRUE once __main__ has called generate_module           *)
(* State of one run of introspect.py.                                      *)
(*   maho_root     the installation to analyse (a path, as components)     *)
(*   root_exists   maho_root.exists()                                      *)
(*   output_dir    the directory the results are saved to                  *)
(*   i_pc          position of main()                                      *)
(*   results       the keys of self.results, in insertion order            *)
(*   i_idx         iterations done of the loop of save_results             *)
(*   i_files       the files the run has opened for writing                *)
(*   i_dirs        the directories the run has created (mkdir)             *)
(*   i_status      return value of main() (-1 while running)               *)
(* State of a library function called on its own.                          *)
(*   lib_pc        which call has been made last                           *)
(*   lib_config    the configuration dictionary passed (mutated in place)  *)
(*   lib_calls     number of calls of apply_defaults made                  *)
(*   lib_error     the exception the last call raised ("none" if none)     *)
(*   lib_ret       the value the last call returned                        *)
(*                                                                         *)
(* The parts of generate_module followed in detail:                        *)
(*   m_pc                   position in generate_module                    *)
(*   m_config               the configuration passed to generate_module    *)
(*   relationships          the (entity1, entity2) pairs selected          *)
(*   url_rewrite_events     the entity names events were added for         *)
(*   observer               the entity names an observer was written for   *)
(*   m_idx                  entities whose admin blocks are written        *)
(*   grid_columns           per entity, the names of its grid columns      *)
(*   form_fields            per entity, the names of its form inputs       *)
(*   setup_script           the tables of the setup script, in order       *)
(***************************************************************************)
VARIABLES config, cwd, existing, takenRoutes, isatty, pc, namespace,
          front_name, alt_route, entity_idx, files_created, written,
          config_xml, status, error, called,
          maho_root, root_exists, output_dir, i_pc, results, i_idx, i_files,
          i_dirs, i_status,
          lib_pc, lib_config, lib_calls, lib_error, lib_ret,
          m_pc, m_config, relationships, url_rewrite_events, observer,
          m_idx, grid_columns, form_fields, setup_script

vars == <<config, cwd, existing, takenRoutes, isatty, pc, namespace,
          front_name, alt_route, entity_idx, files_created, written,
          config_xml, status, error, called,
          maho_root, root_exists, output_dir, i_pc, results, i_idx, i_files,
          i_dirs, i_status,
          lib_pc, lib_config, lib_calls, lib_error, lib_ret,
          m_pc, m_config, relationships, url_rewrite_events, observer,
          m_idx, grid_columns, form_fields, setup_script>>

\* The state of a call of a library function on its own (below).
libVars == <<lib_pc, lib_config, lib_calls, lib_error, lib_ret>>

\* The state of the parts of generate_module followed in detail (below).
modVars == <<m_pc, m_config, relationships, url_rewrite_events, observer,
            m_idx, grid_columns, form_fields, setup_script>>

envVars == <<cwd, existing, takenRoutes, isatty>>

\* The state of a run of introspect.py (below).
introVars == <<maho_root, root_exists, output_dir, i_pc, results, i_idx,
               i_files, i_dirs, i_status>>

genVars == <<config, cwd, existing, takenRoutes, isatty, pc, namespace,
             front_name, alt_route, entity_idx, files_created, written,
             config_xml, status, error, called>>

NoFile == [written |-> FALSE]
NoRoute == "<none>"
Running == 0 - 1

(***************************************************************************)
(* A file path: `up` leading ".." components relative to cwd, the          *)
(* conventional directory it lies under, and the file within it.           *)
(***************************************************************************)
ModulesDir == "app/etc/modules"
CodeDir == "app/code/{pool}/{namespace}/{module}"
DesignDir == "app/design"

PathOf(up, base, kind, ent) == [up |-> up, base |-> base, kind |-> kind, ent |-> ent]

\* The directory a written path lands in.
LocationOf(path, dir) == IF path.up = 0 THEN dir ELSE Up3(dir)

\* The parts of generate_module followed in detail are not run.
ModuleIdle ==
    /\ m_pc = "off"
    /\ m_config = EmptyDict
    /\ relationships = <<>>
    /\ url_rewrite_events = <<>>
    /\ observer = <<>>
    /\ m_idx = 0
    /\ grid_columns = <<>>
    /\ form_fields = <<>>
    /\ setup_script = <<>>

\* No library function is called on its own.
LibIdle ==
    /\ lib_pc = "off"
    /\ lib_config = EmptyDict
    /\ lib_calls = 0
    /\ lib_error = "none"
    /\ lib_ret = <<>>

\* No introspector run takes part in a generator run.
IntrospectorIdle ==
    /\ maho_root = <<>>
    /\ root_exists = FALSE
    /\ output_dir = <<>>
    /\ i_pc = "off"
    /\ results = <<>>
    /\ i_idx = 0
    /\ i_files = {}
    /\ i_dirs = {}
    /\ i_status = Running

Init ==
    /\ config \in Configs
    /\ cwd \in CwdChoices
    /\ existing \in ExistingChoices
    /\ takenRoutes \in SUBSET Routes
    /\ isatty \in BOOLEAN
    /\ pc = "main"
    /\ namespace = <<>>
    /\ front_name = NoRoute
    /\ alt_route = NoRoute
    /\ entity_idx = 0
    /\ files_created = <<>>
    /\ written = <<>>
    /\ config_xml = NoFile
    /\ status = Running
    /\ error = "none"
    /\ called = FALSE
    /\ IntrospectorIdle
    /\ LibIdle
    /\ ModuleIdle

\* sys.exit(code), or an exception reaching the top of the script.
Exit(code, why) ==
    /\ pc' = "exit"
    /\ status' = code
    /\ error' = why

(***************************************************************************)
(* __main__, lines 911-953: arguments, loading, namespace.                 *)
(***************************************************************************)
NamespaceArgs == {<<>>, NsAcme, NsDash}

\* Line 956: generate_module(config) is entered with the namespace set.
CallGenerate(ns) ==
    /\ config' = Put(config, "namespace", ns)
    /\ called' = TRUE
    /\ pc' = "gen_start"
    /\ UNCHANGED <<status, error>>

Main ==
    /\ pc = "main"
    /\ \E fileOk \in BOOLEAN, namespace_arg \in NamespaceArgs :
          IF ~fileOk
          THEN Exit(1, "usage") /\ UNCHANGED <<config, called>>
          ELSE IF namespace_arg # <<>>
          THEN IF ~ValidNamespaceFormat(namespace_arg)
               THEN Exit(1, "namespace_format") /\ UNCHANGED <<config, called>>
               ELSE CallGenerate(namespace_arg)
          ELSE /\ pc' = "ns_choice"
               /\ UNCHANGED <<config, called, status, error>>
    /\ UNCHANGED <<libVars, modVars, introVars, envVars, namespace, front_name, alt_route, entity_idx,
                   files_created, written, config_xml>>

(***************************************************************************)
(* prompt_for_namespace, lines 843-908, one action per input() call.  An   *)
(* EOFError at any of them is caught at line 949.                          *)
(***************************************************************************)
NsChoices == {"", "1", "2", "3", "9"}
NsCustoms == {<<>>, NsAcme, NsDash}
NsConfirms == {"", "y", "n"}

\* Lines 890-901: the checks between the namespace choice and the confirmation.
NamespaceAccepted(ns) == ns # <<>> /\ ValidNamespaceFormat(ns)

AfterNamespaceChosen(ns) ==
    IF NamespaceAccepted(ns)
    THEN /\ namespace' = ns
         /\ pc' = "ns_confirm"
         /\ UNCHANGED <<status, error>>
    ELSE /\ Exit(1, "namespace_format")
         /\ UNCHANGED namespace

PromptChoice ==
    /\ pc = "ns_choice"
    /\ LET current_namespace == Get(config, "namespace", <<>>) IN
       \E eof \in BOOLEAN, answer \in NsChoices :
          IF eof
          THEN Exit(1, "eof") /\ UNCHANGED <<config, called, namespace>>
          ELSE IF current_namespace # <<>>
          THEN LET choice == IF answer = "" THEN "1" ELSE answer IN
               IF choice = "2"
               THEN AfterNamespaceChosen(NsMaho) /\ UNCHANGED <<config, called>>
               ELSE IF choice = "3"
               THEN /\ pc' = "ns_custom"
                    /\ UNCHANGED <<config, called, namespace, status, error>>
               ELSE CallGenerate(current_namespace) /\ UNCHANGED namespace
          ELSE IF answer = "1"
               THEN AfterNamespaceChosen(NsMaho) /\ UNCHANGED <<config, called>>
               ELSE IF answer = "2"
               THEN /\ pc' = "ns_custom"
                    /\ UNCHANGED <<config, called, namespace, status, error>>
               ELSE Exit(1, "invalid_choice") /\ UNCHANGED <<config, called, namespace>>
    /\ UNCHANGED <<libVars, modVars, introVars, envVars, front_name, alt_route, entity_idx,
                   files_created, written, config_xml>>

PromptCustom ==
    /\ pc = "ns_custom"
    /\ \E eof \in BOOLEAN, answer \in NsCustoms :
          IF eof
          THEN Exit(1, "eof") /\ UNCHANGED namespace
          ELSE AfterNamespaceChosen(answer)
    /\ UNCHANGED <<libVars, modVars, introVars, envVars, config, called, front_name, alt_route, entity_idx,
                   files_created, written, config_xml>>

PromptConfirm ==
    /\ pc = "ns_confirm"
    /\ \E eof \in BOOLEAN, confirm \in NsConfirms :
          IF eof
          THEN Exit(1, "eof") /\ UNCHANGED <<config, called>>
          ELSE IF confirm # "" /\ confirm # "y"
          THEN Exit(0, "aborted_by_user") /\ UNCHANGED <<config, called>>
          ELSE CallGenerate(namespace)
    /\ UNCHANGED <<libVars, modVars, introVars, envVars, namespace, front_name, alt_route, entity_idx,
                   files_created, written, config_xml>>

(***************************************************************************)
(* generate_module, lines 104-128: the unconditional reads and the module  *)
(* conflict check.  An exception is caught at line 958 (exit status 1);    *)
(* sys.exit(1) leaves with status 1.                                       *)
(***************************************************************************)
Entities(cfg) == Get(cfg, "entities", <<>>)

\* lib/utils.py check_conflicts: the conflicts found below base_path.
check_conflicts(ex, base_path) == {e \in ex : e.root = base_path}

\* Mutant: the scan finds no declaration of the route.
check_frontend_route_conflict_blind(route, taken) == {}

\* check_frontend_route_conflict: the scanned modules declaring front_name.
check_frontend_route_conflict(route, taken) == {r \in taken : r = route}

GenStart ==
    /\ pc = "gen_start"
    /\ IF ~Has(config, "namespace") \/ ~Has(config, "module")
       THEN Exit(1, "KeyError")
       ELSE IF \E i \in 1..Len(Entities(config)) : ~Has(Entities(config)[i], "name")
       THEN Exit(1, "KeyError")
       ELSE IF check_conflicts(existing, BasePath) # {}
       THEN Exit(1, "conflict")
       ELSE pc' = "route_check" /\ UNCHANGED <<status, error>>
    /\ UNCHANGED <<libVars, modVars, introVars, envVars, config, called, namespace, front_name, alt_route,
                   entity_idx, files_created, written, config_xml>>

(***************************************************************************)
(* Lines 130-173: the frontend route.                                      *)
(***************************************************************************)
DefaultFrontName(cfg) == Get(cfg, "frontend_route", Lower(cfg["module"]))

\* Lines 171-173: no conflict, the route is recorded in the configuration.
RouteAvailable(cfg, route) == Put(cfg, "frontend_route", route)

RouteCheck ==
    /\ pc = "route_check"
    /\ front_name' = DefaultFrontName(config)
    /\ IF check_frontend_route_conflict(DefaultFrontName(config), takenRoutes) # {}
       THEN IF isatty
            THEN pc' = "prompt" /\ UNCHANGED <<config, status, error>>
            ELSE Exit(1, "route_conflict") /\ UNCHANGED config
       ELSE /\ config' = RouteAvailable(config, DefaultFrontName(config))
            /\ pc' = "w_decl"
            /\ UNCHANGED <<status, error>>
    /\ UNCHANGED <<libVars, modVars, introVars, envVars, called, namespace, alt_route, entity_idx,
                   files_created, written, config_xml>>

\* What the user types at the prompt of line 148 (after strip()); Interrupt
\* stands for EOFError or KeyboardInterrupt.
Interrupt == "<eof>"
PromptAnswers == Routes \cup {"", Interrupt}

\* Mutants: the alternative route is never checked again / always refused.
AltRouteRefused_unchecked(route, taken) == FALSE

AltRouteRefused_always(route, taken) == TRUE

\* Line 158: the alternative route is refused when it is taken as well.
AltRouteRefused(route, taken) == check_frontend_route_conflict(route, taken) # {}

\* One iteration of the `while True` loop of lines 146-164.
RoutePrompt ==
    /\ pc = "prompt"
    /\ \E answer \in PromptAnswers :
          /\ alt_route' = answer
          /\ IF answer = Interrupt \/ answer = ""
             THEN /\ config' = Put(config, "skip_frontend", TRUE)
                  /\ pc' = "w_decl"
                  /\ UNCHANGED front_name
             ELSE IF AltRouteRefused(answer, takenRoutes)
             THEN UNCHANGED <<config, pc, front_name>>
             ELSE /\ config' = Put(config, "frontend_route", answer)
                  /\ front_name' = answer
                  /\ pc' = "w_decl"
    /\ UNCHANGED <<libVars, modVars, introVars, envVars, called, namespace, entity_idx, files_created,
                   written, config_xml, status, error>>

(***************************************************************************)
(* The files of lines 175-191 and of the generators.                       *)
(***************************************************************************)
ModuleDeclPath == PathOf(0, ModulesDir, "decl.xml", "")
ConfigXmlPath == PathOf(0, CodeDir, "etc/config.xml", "")
AdminhtmlXmlPath == PathOf(0, CodeDir, "etc/adminhtml.xml", "")
HelperPath == PathOf(0, CodeDir, "Helper/Data.php", "")
AdminhtmlLayoutPath == PathOf(0, DesignDir, "adminhtml/layout.xml", "")
FrontendLayoutPath == PathOf(0, DesignDir, "frontend/layout.xml", "")
SetupScriptPath == PathOf(0, CodeDir, "sql/install-1.0.0.php", "")

\* Append one write: to the disk, and to files_created.
Write(path) ==
    /\ written' = Append(written, path)
    /\ files_created' = Append(files_created, path)

\* [1] Module declaration, lines 195-223.
WriteModuleDecl ==
    /\ pc = "w_decl"
    /\ Write(ModuleDeclPath)
    /\ pc' = "w_config"
    /\ UNCHANGED <<libVars, modVars, introVars, envVars, config, called, namespace, front_name, alt_route,
                   entity_idx, config_xml, status, error>>

\* url_rewrite_generator.py has_url_key_field.
has_url_key_field(fields) ==
    \E i \in 1..Len(fields) : Get(fields[i], "name", "") = "url_key"

\* Mutant: only the entities that have a url_key field are collected.
entities_with_url_key_field_only(entities) ==
    SelectSeq([i \in 1..Len(entities) |-> [idx |-> i - 1, entity |-> entities[i]]],
              LAMBDA x : has_url_key_field(Get(x.entity, "fields", <<>>)))

\* Lines 293-296: the entities that get URL-rewrite support.
entities_with_url_key(entities) ==
    SelectSeq([i \in 1..Len(entities) |-> [idx |-> i - 1, entity |-> entities[i]]],
              LAMBDA x : has_url_key_field(Get(x.entity, "fields", <<>>)) \/ x.idx = 0)

\* Lines 363-372: the frontend router section of config.xml.
FrontendRouter(cfg) ==
    [written |-> TRUE, frontName |-> Get(cfg, "frontend_route", Lower(cfg["module"]))]

\* [2] config.xml, lines 225-403.
WriteConfigXml ==
    /\ pc = "w_config"
    /\ Write(ConfigXmlPath)
    /\ config_xml' = FrontendRouter(config)
    /\ pc' = "w_adminhtml"
    /\ UNCHANGED <<libVars, modVars, introVars, envVars, config, called, namespace, front_name, alt_route,
                   entity_idx, status, error>>

\* system_config_generator.py present_system_config_suggestions: always None.
present_system_config_suggestions(entities) == FALSE

\* [3] adminhtml.xml and [3.5] system.xml, lines 405-450.  The call of line
\* 450 passes five arguments to the three-parameter generate_system_xml, a
\* TypeError; it is never reached, as no suggestions are ever presented.
WriteAdminhtmlXml ==
    /\ pc = "w_adminhtml"
    /\ Write(AdminhtmlXmlPath)
    /\ IF ~Get(config, "skip_system_config", FALSE)
          /\ present_system_config_suggestions(Entities(config))
       THEN Exit(1, "TypeError")
       ELSE pc' = "w_helper" /\ UNCHANGED <<status, error>>
    /\ UNCHANGED <<libVars, modVars, introVars, envVars, config, called, namespace, front_name, alt_route,
                   entity_idx, config_xml>>

\* [4] Helper, lines 452-473; then the entity loop starts.
WriteHelper ==
    /\ pc = "w_helper"
    /\ Write(HelperPath)
    /\ entity_idx' = 0
    /\ pc' = IF Len(Entities(config)) > 0 THEN "entities" ELSE "frontend"
    /\ UNCHANGED <<libVars, modVars, introVars, envVars, config, called, namespace, front_name, alt_route,
                   config_xml, status, error>>

(***************************************************************************)
(* [5] The entity loop, lines 475-500, with generate_entity_files.         *)
(***************************************************************************)
ModelFile(ec) == PathOf(0, CodeDir, "Model/{Entity}.php", ec)
ResourceFile(ec) == PathOf(0, CodeDir, "Model/Resource/{Entity}.php", ec)
CollectionFile(ec) == PathOf(0, CodeDir, "Model/Resource/{Entity}/Collection.php", ec)
AdminControllerFile(ec) == PathOf(0, CodeDir, "controllers/Adminhtml/{Entity}Controller.php", ec)
ContainerFile(ec) == PathOf(0, CodeDir, "Block/Adminhtml/{Entity}.php", ec)
GridFile(ec) == PathOf(0, CodeDir, "Block/Adminhtml/{Entity}/Grid.php", ec)
EditFile(ec) == PathOf(0, CodeDir, "Block/Adminhtml/{Entity}/Edit.php", ec)
FormFile(ec) == PathOf(0, CodeDir, "Block/Adminhtml/{Entity}/Edit/Form.php", ec)

\* model_generator.py lines 102-106: the loop reads field['name'] of every
\* field up to the first that is primary or named {entity}_id.
RECURSIVE ResourceModelRaises(_, _)
ResourceModelRaises(fields, id_field) ==
    IF fields = <<>> THEN FALSE
    ELSE IF Get(Head(fields), "primary", FALSE) THEN FALSE
    ELSE IF ~Has(Head(fields), "name") THEN TRUE
    ELSE IF Head(fields)["name"] = id_field THEN FALSE
    ELSE ResourceModelRaises(Tail(fields), id_field)

\* admin_generator.py lines 44-47: field['name'] is read for every field.
AdminControllerRaises(fields) == \E i \in 1..Len(fields) : ~Has(fields[i], "name")

\* Mutant: the admin controller is generated before the model files.
EntityWrites_controller_first(entity) ==
    LET ec == Capitalize(entity["name"])
    IN  <<AdminControllerFile(ec), ModelFile(ec), ResourceFile(ec), CollectionFile(ec),
          ContainerFile(ec), GridFile(ec), EditFile(ec), FormFile(ec)>>

\* The writes of generate_entity_files for one entity, in order, up to the
\* first exception.
EntityWrites(entity) ==
    LET ec == Capitalize(entity["name"])
        fields == Get(entity, "fields", <<>>)
    IN  IF ResourceModelRaises(fields, IdFieldName(entity["name"]))
        THEN <<ModelFile(ec)>>
        ELSE IF AdminControllerRaises(fields)
        THEN <<ModelFile(ec), ResourceFile(ec), CollectionFile(ec)>>
        ELSE <<ModelFile(ec), ResourceFile(ec), CollectionFile(ec),
               AdminControllerFile(ec),
               ContainerFile(ec), GridFile(ec), EditFile(ec), FormFile(ec)>>

EntityRaises(entity) ==
    \/ ResourceModelRaises(Get(entity, "fields", <<>>), IdFieldName(entity["name"]))
    \/ AdminControllerRaises(Get(entity, "fields", <<>>))

\* One iteration of the loop of line 481; files_created is extended only
\* when generate_entity_files returns.
EntityFiles ==
    /\ pc = "entities"
    /\ entity_idx < Len(Entities(config))
    /\ LET entity == Entities(config)[entity_idx + 1] IN
          /\ written' = written \o EntityWrites(entity)
          /\ IF EntityRaises(entity)
             THEN /\ Exit(1, "KeyError")
                  /\ UNCHANGED <<files_created, entity_idx>>
             ELSE /\ files_created' = files_created \o EntityWrites(entity)
                  /\ entity_idx' = entity_idx + 1
                  /\ pc' = IF entity_idx + 1 < Len(Entities(config))
                           THEN "entities" ELSE "frontend"
                  /\ UNCHANGED <<status, error>>
    /\ UNCHANGED <<libVars, modVars, introVars, envVars, config, called, namespace, front_name, alt_route,
                   config_xml>>

(***************************************************************************)
(* Lines 502-509 and lib/frontend_generator.py: the frontend files.        *)
(***************************************************************************)
FrontendEnabled(entity) == Get(Get(entity, "frontend", EmptyDict), "enabled", FALSE)

\* next((e for e in entities if enabled(e)), None)
EnabledEntities(entities) == SelectSeq(entities, FrontendEnabled)

\* next((e for e in entities if enabled(e)), entities[0]): the default
\* entities[0] is evaluated first, an IndexError on an empty list.
PrimaryEntityRaises(entities) == entities = <<>>

PrimaryEntity(entities) ==
    IF EnabledEntities(entities) # <<>> THEN Head(EnabledEntities(entities))
    ELSE entities[1]

SidebarBlocks(entities) ==
    IF EnabledEntities(entities) = <<>> THEN <<>>
    ELSE Get(Get(Head(EnabledEntities(entities)), "frontend", EmptyDict),
             "sidebar_blocks", <<>>)

EntityNamed(entities, n) == \E i \in 1..Len(entities) : entities[i]["name"] = n

\* generate_related_entity_controllers, lines 160-237.
RelatedControllerFiles(entities) ==
    LET blocks == SelectSeq(SidebarBlocks(entities),
                            LAMBDA b : Has(b, "entity") /\ EntityNamed(entities, b["entity"]))
    IN  [i \in 1..Len(blocks) |->
            PathOf(0, CodeDir, "controllers/{Entity}Controller.php",
                   Capitalize(blocks[i]["entity"]))]

\* generate_sidebar_blocks, lines 706-724: a block class and its template.
SidebarBlockFiles(entities) ==
    LET blocks == SelectSeq(SidebarBlocks(entities),
                            LAMBDA b : \/ Get(b, "type", "") = "recent"
                                       \/ Has(b, "entity") /\ EntityNamed(entities, b["entity"]))
    IN  FlattenSeq([i \in 1..Len(blocks) |->
            IF Get(blocks[i], "type", "") = "recent"
            THEN <<PathOf(0, CodeDir, "Block/Sidebar/Recent.php", ""),
                   PathOf(0, DesignDir, "frontend/template/sidebar/recent.phtml", "")>>
            ELSE <<PathOf(0, CodeDir, "Block/Sidebar/{Entity}s.php",
                          Capitalize(blocks[i]["entity"])),
                   PathOf(0, DesignDir, "frontend/template/sidebar/{entity}s.phtml",
                          blocks[i]["entity"])>>])

\* generate_frontend_templates, line 440: the template directory is
\* Path("../../../app/design/frontend/base/default/template/...").
TemplateUp == 3

ListTemplate == PathOf(TemplateUp, DesignDir, "frontend/template/list.phtml", "")
ViewTemplate == PathOf(TemplateUp, DesignDir, "frontend/template/view.phtml", "")

\* Lines 495-497: field['name'] is read for every field of the primary entity.
ViewTemplateRaises(entities) ==
    LET fields == Get(PrimaryEntity(entities), "fields", <<>>)
    IN  \E i \in 1..Len(fields) : ~Has(fields[i], "name")

\* The writes of lines 505-509, in order, up to the first exception.
FrontendWrites(entities) ==
    <<PathOf(0, CodeDir, "controllers/IndexController.php", "")>>
    \o RelatedControllerFiles(entities)
    \o <<PathOf(0, CodeDir, "Block/List.php", ""), PathOf(0, CodeDir, "Block/View.php", "")>>
    \o SidebarBlockFiles(entities)
    \o (IF ViewTemplateRaises(entities) THEN <<ListTemplate>>
        ELSE <<ListTemplate, ViewTemplate>>)

SkipFrontend(cfg) == Get(cfg, "skip_frontend", FALSE)

Frontend ==
    /\ pc = "frontend"
    /\ IF SkipFrontend(config)
       THEN /\ pc' = "observer"
            /\ UNCHANGED <<written, files_created, status, error>>
       ELSE IF PrimaryEntityRaises(Entities(config))
       THEN /\ Exit(1, "IndexError")
            /\ UNCHANGED <<written, files_created>>
       ELSE /\ written' = written \o FrontendWrites(Entities(config))
            /\ files_created' = files_created \o FrontendWrites(Entities(config))
            /\ IF ViewTemplateRaises(Entities(config))
               THEN Exit(1, "KeyError")
               ELSE pc' = "observer" /\ UNCHANGED <<status, error>>
    /\ UNCHANGED <<libVars, modVars, introVars, envVars, config, called, namespace, front_name, alt_route,
                   entity_idx, config_xml>>

(***************************************************************************)
(* Lines 511-563: URL-rewrite observer, layouts, setup script.             *)
(***************************************************************************)
ObserverFile(ec) == PathOf(0, CodeDir, "Model/Observer/UrlRewrite.php", ec)

UrlRewriteObserver ==
    /\ pc = "observer"
    /\ IF entities_with_url_key(Entities(config)) # <<>>
       THEN Write(ObserverFile(Capitalize(
                Head(entities_with_url_key(Entities(config))).entity["name"])))
       ELSE UNCHANGED <<written, files_created>>
    /\ pc' = "layouts"
    /\ UNCHANGED <<libVars, modVars, introVars, envVars, config, called, namespace, front_name, alt_route,
                   entity_idx, config_xml, status, error>>

WriteLayouts ==
    /\ pc = "layouts"
    /\ written' = written \o <<AdminhtmlLayoutPath, FrontendLayoutPath>>
    /\ files_created' = files_created \o <<AdminhtmlLayoutPath, FrontendLayoutPath>>
    /\ pc' = "setup"
    /\ UNCHANGED <<libVars, modVars, introVars, envVars, config, called, namespace, front_name, alt_route,
                   entity_idx, config_xml, status, error>>

\* [7] The setup script, then the return to __main__ and exit status 0.
WriteSetupScript ==
    /\ pc = "setup"
    /\ IF Entities(config) # <<>>
       THEN Write(SetupScriptPath)
       ELSE UNCHANGED <<written, files_created>>
    /\ Exit(0, "success")
    /\ UNCHANGED <<libVars, modVars, introVars, envVars, config, called, namespace, front_name, alt_route,
                   entity_idx, config_xml>>

Next ==
    \/ Main
    \/ PromptChoice
    \/ PromptCustom
    \/ PromptConfirm
    \/ GenStart
    \/ RouteCheck
    \/ RoutePrompt
    \/ WriteModuleDecl
    \/ WriteConfigXml
    \/ WriteAdminhtmlXml
    \/ WriteHelper
    \/ EntityFiles
    \/ Frontend
    \/ UrlRewriteObserver
    \/ WriteLayouts
    \/ WriteSetupScript

Spec == Init /\ [][Next]_vars

(***************************************************************************)
(* Properties of the generator run.                                        *)
(***************************************************************************)

\* generate_module has got past the route resolution of lines 130-173.
PastRouteResolution ==
    \/ pc \in {"w_decl", "w_config", "w_adminhtml", "w_helper", "entities",
               "frontend", "observer", "layouts", "setup"}
    \/ pc = "exit" /\ written # <<>>

\* C1: a configuration that validate_config rejects leads to no file being
\* written (validate_config is applied before generate_module writes).
C1_RejectedConfigWritesNothing ==
    ~validate_config(config)[1] => written = <<>>

\* C2: if the module declaration file or the module directory already exists
\* where generate_module is about to write (below the working directory),
\* generate_module aborts before writing any file.
C2_ExistingModuleAborts ==
    (\E e \in existing : e.root = cwd) => written = <<>>

\* C3: every path of files_created lies below the working directory, under
\* app/etc/modules, app/code/{pool}/{namespace}/{module} or app/design.
C3_FilesUnderWorkingDirectory ==
    \A i \in 1..Len(files_created) :
        /\ files_created[i].up = 0
        /\ files_created[i].base \in {ModulesDir, CodeDir, DesignDir}

\* The place of a file in the order claim C4 states: the numbered stage,
\* then the position of its entity in the configuration, then the generator.
EntityPosition(ec) ==
    CHOOSE i \in 1..Len(Entities(config)) :
        Capitalize(Entities(config)[i]["name"]) = ec

FileStage(p) ==
    CASE p = ModuleDeclPath -> 1
      [] p = ConfigXmlPath -> 2
      [] p = AdminhtmlXmlPath -> 3
      [] p = HelperPath -> 4
      [] p.kind \in {"Model/{Entity}.php", "Model/Resource/{Entity}.php",
                     "Model/Resource/{Entity}/Collection.php",
                     "controllers/Adminhtml/{Entity}Controller.php",
                     "Block/Adminhtml/{Entity}.php",
                     "Block/Adminhtml/{Entity}/Grid.php",
                     "Block/Adminhtml/{Entity}/Edit.php",
                     "Block/Adminhtml/{Entity}/Edit/Form.php"} -> 5
      [] p.kind = "Model/Observer/UrlRewrite.php" -> 7
      [] p = AdminhtmlLayoutPath -> 8
      [] p = FrontendLayoutPath -> 9
      [] p = SetupScriptPath -> 10
      [] OTHER -> 6

GeneratorOrder(p) ==
    CASE p.kind = "Model/{Entity}.php" -> 1
      [] p.kind = "Model/Resource/{Entity}.php" -> 2
      [] p.kind = "Model/Resource/{Entity}/Collection.php" -> 3
      [] p.kind = "controllers/Adminhtml/{Entity}Controller.php" -> 4
      [] OTHER -> 5

FileKey(p) ==
    IF FileStage(p) = 5
    THEN <<5, EntityPosition(p.ent), GeneratorOrder(p)>>
    ELSE <<FileStage(p), 0, 0>>

KeyLess(a, b) ==
    \/ a[1] < b[1]
    \/ a[1] = b[1] /\ a[2] < b[2]
    \/ a[1] = b[1] /\ a[2] = b[2] /\ a[3] < b[3]

\* Several files share a key only among the admin blocks of one entity and
\* among the frontend files.  (The order of keys is transitive, so comparing
\* neighbours compares all pairs.)
InFixedOrder(files) ==
    \A i \in 1..(Len(files) - 1) :
        \/ KeyLess(FileKey(files[i]), FileKey(files[i + 1]))
        \/ /\ FileKey(files[i]) = FileKey(files[i + 1])
           /\ \/ FileStage(files[i]) = 6
              \/ FileStage(files[i]) = 5 /\ GeneratorOrder(files[i]) = 5

StagesOf(files) == {FileStage(files[i]) : i \in 1..Len(files)}

\* C4: the files are written, and listed in files_created, in one fixed
\* order: declaration, config.xml, adminhtml.xml, helper, per entity in
\* configuration order model, resource model, collection, admin controller,
\* admin blocks, then the frontend files unless skipped, the URL-rewrite
\* observer, the adminhtml layout, the frontend layout, the setup script.
C4_FixedOrder ==
    /\ InFixedOrder(written)
    /\ InFixedOrder(files_created)
    /\ error = "success" =>
          /\ files_created = written
          /\ {1, 2, 3, 4, 8, 9} \subseteq StagesOf(files_created)
          /\ (6 \in StagesOf(files_created)) = ~SkipFrontend(config)
          /\ (10 \in StagesOf(files_created)) = (Entities(config) # <<>>)
          /\ \A i \in 1..Len(Entities(config)) :
                Cardinality({k \in 1..Len(files_created) :
                    FileKey(files_created[k])[1] = 5
                    /\ FileKey(files_created[k])[2] = i}) = 8

C4_Witness ==
    /\ error = "success"
    /\ Len(Entities(config)) = 2
    /\ ~SkipFrontend(config)
    /\ Len(files_created) > 20

\* Progress of the script: every position lies before the positions that
\* follow it in the source; inside the entity loop the index counts.
PcRank(p) ==
    CASE p = "main" -> 1
      [] p = "ns_choice" -> 2
      [] p = "ns_custom" -> 3
      [] p = "ns_confirm" -> 4
      [] p = "gen_start" -> 5
      [] p = "route_check" -> 6
      [] p = "prompt" -> 7
      [] p = "w_decl" -> 8
      [] p = "w_config" -> 9
      [] p = "w_adminhtml" -> 10
      [] p = "w_helper" -> 11
      [] p = "entities" -> 12
      [] p = "frontend" -> 13
      [] p = "observer" -> 14
      [] p = "layouts" -> 15
      [] p = "setup" -> 16
      [] OTHER -> 17

Progress == <<PcRank(pc), IF pc = "entities" THEN entity_idx ELSE 0, 0>>

\* C5 as stated: control flow is linear, no step is repeated depending on
\* the outcome of an earlier step: every step of the run moves the script
\* forward, also when the alternative route entered is itself taken.
C5_EveryStepAdvances == [][KeyLess(Progress, Progress')]_vars

\* C5 as amended: every step moves the script forward, except that the
\* prompt for an alternative frontend route is repeated when (and only
\* when) the route entered is itself taken; so a run ends within a bounded
\* number of steps once the user stops entering taken routes.
C5_LinearExceptRoutePrompt ==
    [][\/ KeyLess(Progress, Progress')
       \/ /\ pc = "prompt" /\ pc' = "prompt"
          /\ alt_route' \in takenRoutes]_vars

\* The prompt has been repeated: the alternative entered was taken as well.
C5_Witness ==
    /\ pc = "prompt"
    /\ alt_route \in takenRoutes
    /\ alt_route # front_name

FrontendFilesWritten == {i \in 1..Len(written) : FileStage(written[i]) = 6}

\* C8: when the route conflict is resolved by skipping the frontend, the
\* generated config.xml declares no frontend router with the conflicting
\* frontName and no frontend controller, block or template is written.
C8_SkipFrontendDeclaresNoRoute ==
    (SkipFrontend(config) /\ config_xml.written)
    => (config_xml.frontName # front_name /\ FrontendFilesWritten = {})

\* C9: past the route resolution, either skip_frontend is set or
\* config['frontend_route'] holds a route without conflict, and that route
\* is the frontName written into config.xml.
C9_RouteResolved ==
    PastRouteResolution =>
        \/ SkipFrontend(config)
        \/ /\ Has(config, "frontend_route")
           /\ config["frontend_route"] \notin takenRoutes
           /\ config_xml.written => config_xml.frontName = config["frontend_route"]

C9_Witness ==
    /\ pc = "exit" /\ status = 0
    /\ front_name = alt_route
    /\ config_xml.written /\ config_xml.frontName = alt_route
    /\ DefaultFrontName([module |-> config["module"]]) \in takenRoutes

\* C10: a configuration that validate_config accepts never makes
\* generate_module fail on a missing key.
C10_AcceptedConfigNoKeyError ==
    validate_config(config)[1] => error # "KeyError"

(***************************************************************************)
(* introspect.py: main(), run_full_analysis and save_results.  Paths are   *)
(* sequences of components.                                                *)
(***************************************************************************)
MahoRoots == {<<"srv", "maho">>, <<"srv", "analysis">>}
OutputDirs == {<<"tmp", "out">>, <<"srv">>, <<"srv", "maho">>, <<"srv", "maho", "docs">>}

\* path is dir itself or lies below it.
IsUnder(path, dir) ==
    Len(dir) <= Len(path) /\ SubSeq(path, 1, Len(dir)) = dir

\* The keys run_full_analysis stores, lines 38-63, in order.
AnalysisKeys ==
    <<"metadata", "core_classes", "config_schemas", "admin_patterns",
      "javascript", "database", "layout", "reference_impls">>

\* Mutant: the JSON reports are saved into the output directory itself.
AnalysisDir_flat(out) == out

\* save_results line 658: analysis_dir = output_dir / 'analysis'.
AnalysisDir(out) == out \o <<"analysis">>

\* Line 664: output_file = analysis_dir / f'{key}.json'.
OutputFile(out, key) == AnalysisDir(out) \o <<key, ".json">>

\* Line 673: summary_file = output_dir / 'INTROSPECTION_SUMMARY.md'.
SummaryFile(out) == out \o <<"INTROSPECTION_SUMMARY.md">>

\* mkdir(parents=True): the directory and its ancestors.
Ancestors(dir) == {SubSeq(dir, 1, n) : n \in 1..Len(dir)}

GeneratorIdle ==
    /\ config = EmptyDict
    /\ cwd = "root"
    /\ existing = {}
    /\ takenRoutes = {}
    /\ isatty = FALSE
    /\ pc = "off"
    /\ namespace = <<>>
    /\ front_name = NoRoute
    /\ alt_route = NoRoute
    /\ entity_idx = 0
    /\ files_created = <<>>
    /\ written = <<>>
    /\ config_xml = NoFile
    /\ status = Running
    /\ error = "none"
    /\ called = FALSE

InitIntrospect ==
    /\ maho_root \in MahoRoots
    /\ root_exists \in BOOLEAN
    /\ output_dir \in OutputDirs
    /\ i_pc = "main"
    /\ results = <<>>
    /\ i_idx = 0
    /\ i_files = {}
    /\ i_dirs = {}
    /\ i_status = Running
    /\ GeneratorIdle
    /\ LibIdle
    /\ ModuleIdle

\* main(), lines 731-740.
IntrospectMain ==
    /\ i_pc = "main"
    /\ IF ~root_exists
       THEN i_pc' = "exit" /\ i_status' = 1
       ELSE i_pc' = "analysis" /\ UNCHANGED i_status
    /\ UNCHANGED <<libVars, modVars, genVars, maho_root, root_exists, output_dir, results,
                   i_idx, i_files, i_dirs>>

\* run_full_analysis, lines 38-63: one analysis per step; each reads below
\* maho_root and stores its result under the next key.
RunAnalysis ==
    /\ i_pc = "analysis"
    /\ Len(results) < Len(AnalysisKeys)
    /\ results' = Append(results, AnalysisKeys[Len(results) + 1])
    /\ i_pc' = IF Len(results) + 1 = Len(AnalysisKeys) THEN "save" ELSE "analysis"
    /\ UNCHANGED <<libVars, modVars, genVars, maho_root, root_exists, output_dir, i_idx,
                   i_files, i_dirs, i_status>>

\* save_results, lines 657-659: mkdir(parents=True, exist_ok=True) creates
\* the directories of the path that are missing.  The first n components
\* exist already; maho_root exists (main, line 734), so its ancestors do.
SaveMkdir ==
    /\ i_pc = "save"
    /\ \E n \in 0..Len(AnalysisDir(output_dir)) :
          /\ \A d \in Ancestors(maho_root) :
                IsUnder(AnalysisDir(output_dir), d) => Len(d) <= n
          /\ i_dirs' = i_dirs \cup
                {SubSeq(AnalysisDir(output_dir), 1, m) :
                    m \in (n + 1)..Len(AnalysisDir(output_dir))}
    /\ i_pc' = "save_json"
    /\ UNCHANGED <<libVars, modVars, genVars, maho_root, root_exists, output_dir, results,
                   i_idx, i_files, i_status>>

\* save_results, lines 663-670: one key per step.  open() may fail (no
\* file), json.dump may fail (the file exists, partly written); both are
\* caught at line 669.
SaveJson ==
    /\ i_pc = "save_json"
    /\ i_idx < Len(results)
    /\ \E opened \in BOOLEAN :
          i_files' = IF opened
                     THEN i_files \cup {OutputFile(output_dir, results[i_idx + 1])}
                     ELSE i_files
    /\ i_idx' = i_idx + 1
    /\ i_pc' = IF i_idx + 1 = Len(results) THEN "save_summary" ELSE "save_json"
    /\ UNCHANGED <<libVars, modVars, genVars, maho_root, root_exists, output_dir, results,
                   i_dirs, i_status>>

\* save_results, lines 673-710, and the return of main(); an OSError at
\* line 674 is not caught and ends the run with a traceback (status 1).
SaveSummary ==
    /\ i_pc = "save_summary"
    /\ \E opened \in BOOLEAN :
          IF opened
          THEN /\ i_files' = i_files \cup {SummaryFile(output_dir)}
               /\ i_status' = 0
          ELSE /\ UNCHANGED i_files
               /\ i_status' = 1
    /\ i_pc' = "exit"
    /\ UNCHANGED <<libVars, modVars, genVars, maho_root, root_exists, output_dir, results,
                   i_idx, i_dirs>>

NextIntrospect ==
    \/ IntrospectMain
    \/ RunAnalysis
    \/ SaveMkdir
    \/ SaveJson
    \/ SaveSummary

SpecIntrospect == InitIntrospect /\ [][NextIntrospect]_vars

\* Everything the run has created or written.
Touched == i_files \cup i_dirs

\* C6 as stated: the introspector never creates or modifies anything under
\* maho_root.
C6_NothingUnderMahoRoot ==
    \A f \in Touched : ~IsUnder(f, maho_root)

\* C6 as amended: the only files written are analysis/<key>.json, for the
\* keys of the results, and INTROSPECTION_SUMMARY.md, under the output
\* directory; nothing under maho_root is created or modified unless the
\* output directory is maho_root or lies below it, or output_dir/analysis
\* is maho_root.
C6_WritesOnlyReports ==
    /\ \A f \in i_files :
          \/ f = output_dir \o <<"INTROSPECTION_SUMMARY.md">>
          \/ \E k \in 1..Len(results) : f = output_dir \o <<"analysis", results[k], ".json">>
    /\ \A d \in i_dirs : IsUnder(output_dir \o <<"analysis">>, d)
    /\ (~IsUnder(output_dir, maho_root) /\ maho_root # output_dir \o <<"analysis">>)
          => \A f \in Touched : ~IsUnder(f, maho_root)

C6_Witness ==
    /\ i_pc = "exit" /\ i_status = 0
    /\ Cardinality(i_files) = Len(AnalysisKeys) + 1
    /\ i_dirs # {}
    /\ ~IsUnder(output_dir, maho_root)
    /\ maho_root # output_dir \o <<"analysis">>
    /\ IsUnder(maho_root, output_dir)

(***************************************************************************)
(* lib/config.py and lib/utils.py called on their own.  Names are          *)
(* sequences of characters, so that to_snake_case, str.title(), sorted()   *)
(* and string concatenation are computed as Python computes them.          *)
(***************************************************************************)
AsciiLower ==
    <<"a", "b", "c", "d", "e", "f", "g", "h", "i", "j", "k", "l", "m",
      "n", "o", "p", "q", "r", "s", "t", "u", "v", "w", "x", "y", "z">>

AsciiUpper ==
    <<"A", "B", "C", "D", "E", "F", "G", "H", "I", "J", "K", "L", "M",
      "N", "O", "P", "Q", "R", "S", "T", "U", "V", "W", "X", "Y", "Z">>

AsciiDigits == <<"0", "1", "2", "3", "4", "5", "6", "7", "8", "9">>

IsIn(seq, c) == \E i \in 1..Len(seq) : seq[i] = c

IndexIn(seq, c) == CHOOSE i \in 1..Len(seq) : seq[i] = c

IsUpperChar(c) == IsIn(AsciiUpper, c)

IsLowerChar(c) == IsIn(AsciiLower, c)

IsDigitChar(c) == IsIn(AsciiDigits, c)

LowerChar(c) == IF IsUpperChar(c) THEN AsciiLower[IndexIn(AsciiUpper, c)] ELSE c

UpperChar(c) == IF IsLowerChar(c) THEN AsciiUpper[IndexIn(AsciiLower, c)] ELSE c

\* ord(c), for the characters names are made of.
CharCode(c) ==
    IF IsDigitChar(c) THEN 47 + IndexIn(AsciiDigits, c)
    ELSE IF IsUpperChar(c) THEN 64 + IndexIn(AsciiUpper, c)
    ELSE IF IsLowerChar(c) THEN 96 + IndexIn(AsciiLower, c)
    ELSE IF c = "_" THEN 95
    ELSE IF c = "-" THEN 45
    ELSE 32

\* str.lower()
StrLower(s) == [i \in 1..Len(s) |-> LowerChar(s[i])]

\* str.replace(a, b) for single characters.
ReplaceChar(s, a, b) == [i \in 1..Len(s) |-> IF s[i] = a THEN b ELSE s[i]]

\* str.title(): a letter is upper-cased after a non-letter, lower-cased
\* after a letter.
Title(s) ==
    [i \in 1..Len(s) |->
        IF i = 1 \/ ~(IsUpperChar(s[i - 1]) \/ IsLowerChar(s[i - 1]))
        THEN UpperChar(s[i]) ELSE LowerChar(s[i])]

\* a < b on Python strings.
StrLess(a, b) ==
    \E k \in 0..Len(a) :
        /\ k <= Len(b)
        /\ SubSeq(a, 1, k) = SubSeq(b, 1, k)
        /\ \/ k = Len(a) /\ k < Len(b)
           \/ k < Len(a) /\ k < Len(b) /\ CharCode(a[k + 1]) < CharCode(b[k + 1])

\* sorted([a, b])
Sorted2(a, b) == IF StrLess(b, a) THEN <<b, a>> ELSE <<a, b>>

\* to_snake_case, lines 98-101.  The two substitutions put an underscore
\* before an upper-case letter that follows a lower-case letter or digit
\* (second pattern, and the places the first pattern's non-overlapping scan
\* skips) or that is followed by a lower-case letter (first pattern).
UnderscoreBefore(text, i) ==
    /\ i > 1
    /\ IsUpperChar(text[i])
    /\ \/ IsLowerChar(text[i - 1])
       \/ IsDigitChar(text[i - 1])
       \/ i < Len(text) /\ IsLowerChar(text[i + 1])

RECURSIVE SnakeFrom(_, _)
SnakeFrom(text, i) ==
    IF i > Len(text) THEN <<>>
    ELSE (IF UnderscoreBefore(text, i) THEN <<"_">> ELSE <<>>)
         \o <<LowerChar(text[i])>> \o SnakeFrom(text, i + 1)

to_snake_case(text) == SnakeFrom(text, 1)

\* Field names lib/config.py compares with.
KwName == <<"n", "a", "m", "e">>
KwTitle == <<"t", "i", "t", "l", "e">>
KwStatus == <<"s", "t", "a", "t", "u", "s">>
KwCreatedAt == <<"c", "r", "e", "a", "t", "e", "d", "_", "a", "t">>
KwUpdatedAt == <<"u", "p", "d", "a", "t", "e", "d", "_", "a", "t">>

\* The outcome of a piece of code that mutates a dictionary in place: the
\* dictionary as it is left, and whether the code ran to its end (ok) or
\* stopped with a KeyError.
Done(v) == [v |-> v, ok |-> TRUE]

Raised(v) == [v |-> v, ok |-> FALSE]

\* The element of a one-element set.  Only({F(x) : x \in {e}}) is F applied
\* to the value of e: a local variable x, assigned once.
Only(S) == CHOOSE r \in S : TRUE

\* Mutant: an explicit 'nullable' is overwritten by the default.
Default_overwrite(d, k, v) == IF Has(d, k) /\ k # "nullable" THEN d ELSE Put(d, k, v)

\* The step `if k not in d: d[k] = v`; v is evaluated only if k is missing.
Default(d, k, v) == Only({IF Has(x, k) THEN x ELSE Put(x, k, v) : x \in {d}})

\* Lines 58-61: the default length of a varchar.
FieldLength(field) ==
    Only({IF f["type"] = "varchar" /\ ~Has(f, "length") THEN Put(f, "length", 255) ELSE f
          : f \in {field}})

\* Lines 69-71: admin.form.
FieldForm(f6) ==
    IF ~Has(f6["admin"], "form") /\ ~Has(f6, "name") THEN Raised(f6)
    ELSE Done(Put(f6, "admin",
                  Default(f6["admin"], "form",
                          f6["name"] \notin {KwCreatedAt, KwUpdatedAt})))

\* Lines 65-67: admin.grid.
FieldGrid(f5) ==
    IF ~Has(f5["admin"], "grid") /\ ~Has(f5, "name") THEN Raised(f5)
    ELSE Only({FieldForm(f6) : f6 \in
                 {Put(f5, "admin",
                      Default(f5["admin"], "grid",
                              f5["name"] \in {KwName, KwTitle, KwStatus, KwCreatedAt}))}})

\* Lines 53-63: label, length, admin.
FieldLabel(f2) ==
    IF ~Has(f2, "label") /\ ~Has(f2, "name") THEN Raised(f2)
    ELSE Only({FieldGrid(f5) : f5 \in
                 {Default(FieldLength(Default(f2, "label",
                                              Title(ReplaceChar(f2["name"], "_", " ")))),
                          "admin", EmptyDict)}})

\* apply_defaults, lines 43-71: one field.
FieldDefaults(field) ==
    Only({FieldLabel(f2) : f2 \in
            {Default(Default(field, "type", "varchar"), "nullable", TRUE)}})

\* One iteration of a loop over a list, after its element has been
\* processed with outcome h: an exception leaves the rest of the list as it
\* was, otherwise the loop goes on with outcome t.
Then(h, rest, t) ==
    IF ~h.ok THEN Raised(<<h.v>> \o rest)
    ELSE Only({[v |-> <<h.v>> \o x.v, ok |-> x.ok] : x \in {t}})

\* The loop of line 43: the fields in order, up to the first exception.
RECURSIVE FieldsDefaults(_)
FieldsDefaults(fields) ==
    Only({IF Len(fs) = 0 THEN Done(<<>>)
          ELSE Only({Then(h, Tail(fs), FieldsDefaults(Tail(fs)))
                     : h \in {FieldDefaults(Head(fs))}})
          : fs \in {fields}})

\* sorted([entity_table, target_table]) joined, lines 105-106.
JunctionTable(entity_table, target_table) ==
    Only({tables[1] \o <<"_">> \o tables[2]
          : tables \in {Sorted2(entity_table, target_table)}})

\* Lines 97-108: one relationship of `entity`.  The default argument of
\* entity.get('table', to_snake_case(entity['name'])) is evaluated whether
\* or not 'table' is present.
RelationshipDefaults(rel, entity) ==
    Only({IF r1["type"] = "many_to_many" /\ ~Has(r1, "junction_table")
          THEN IF ~Has(entity, "name") \/ ~Has(r1, "target") THEN Raised(r1)
               ELSE Done(Put(r1, "junction_table",
                             JunctionTable(Get(entity, "table",
                                               to_snake_case(entity["name"])),
                                           to_snake_case(r1["target"]))))
          ELSE Done(r1)
          : r1 \in {Default(rel, "type", "many_to_many")}})

RECURSIVE RelationshipsDefaults(_, _)
RelationshipsDefaults(rels, entity) ==
    Only({IF Len(rs) = 0 THEN Done(<<>>)
          ELSE Only({Then(h, Tail(rs), RelationshipsDefaults(Tail(rs), entity))
                     : h \in {RelationshipDefaults(Head(rs), entity)}})
          : rs \in {rels}})

\* Lines 73-81: the admin settings of an entity.
EntityAdmin(entity) ==
    Only({Put(e5, "admin", Default(Default(e5["admin"], "menu", TRUE), "acl", TRUE))
          : e5 \in {Default(entity, "admin", EmptyDict)}})

\* Lines 83-93: the frontend settings of an entity, and multi_store.
EntityFrontend(entity) ==
    Only({IF e8["frontend"]["enabled"] THEN Default(e8, "multi_store", TRUE) ELSE e8
          : e8 \in {Only({Put(e7, "frontend", Default(e7["frontend"], "enabled", FALSE))
                          : e7 \in {Default(entity, "frontend", EmptyDict)}})}})

\* Lines 95-108: the relationships of an entity.
EntityRelationships(e9) ==
    IF ~Has(e9, "relationships") THEN Done(e9)
    ELSE Only({[v |-> Put(e9, "relationships", rs.v), ok |-> rs.ok]
               : rs \in {RelationshipsDefaults(e9["relationships"], e9)}})

\* Lines 43-108: the fields of an entity, and what follows them.
EntityFields(e3) ==
    Only({IF ~fs.ok THEN Raised(Put(e3, "fields", fs.v))
          ELSE Only({EntityRelationships(e9)
                     : e9 \in {EntityFrontend(EntityAdmin(Put(e3, "fields", fs.v)))}})
          : fs \in {FieldsDefaults(e3["fields"])}})

\* Lines 35-40: table and fields.
EntityTable(e1) ==
    IF ~Has(e1, "table") /\ ~Has(e1, "name") THEN Raised(e1)
    ELSE Only({EntityFields(e3) : e3 \in
                 {Default(Default(e1, "table", to_snake_case(e1["name"])),
                          "fields", <<>>)}})

\* Lines 29-108: one entity.
EntityDefaults(entity) ==
    Only({IF ~Has(e0, "label") /\ ~Has(e0, "name") THEN Raised(e0)
          ELSE Only({EntityTable(e1) : e1 \in
                       {Default(e0, "label", Title(ReplaceChar(e0["name"], "_", " ")))}})
          : e0 \in {entity}})

\* The loop of line 29: the entities in order, up to the first exception.
RECURSIVE EntitiesDefaults(_)
EntitiesDefaults(entities) ==
    Only({IF Len(es) = 0 THEN Done(<<>>)
          ELSE Only({Then(h, Tail(es), EntitiesDefaults(Tail(es)))
                     : h \in {EntityDefaults(Head(es))}})
          : es \in {entities}})

\* apply_defaults, lines 10-110.  .v is the configuration as the call
\* leaves it; .ok tells whether it returned.
apply_defaults(cfg) ==
    Only({IF ~Has(c2, "entities") THEN Done(c2)
          ELSE Only({[v |-> Put(c2, "entities", es.v), ok |-> es.ok]
                     : es \in {EntitiesDefaults(c2["entities"])}})
          : c2 \in {Default(Default(cfg, "namespace", NsMaho), "version", "24.11.0")}})

(***************************************************************************)
(* The configurations the library functions are called with.               *)
(***************************************************************************)
MaxLibEntities == 2
MaxCalls == 2

NameBlogPost == <<"B", "l", "o", "g", "P", "o", "s", "t">>
NameTag == <<"T", "a", "g">>
NameCategory == <<"c", "a", "t", "e", "g", "o", "r", "y">>
LibNames == <<NameBlogPost, NameTag, NameCategory, KwName>>

ExplicitTable == <<"p", "o", "s", "t", "s">>
ExplicitLabel == <<"A", " ", "l", "a", "b", "e", "l">>
ExplicitJunction == <<"l", "i", "n", "k", "s">>

LFTitle == [name |-> KwTitle]
LFStatus ==
    [name |-> KwStatus, type |-> "text", nullable |-> FALSE, label |-> ExplicitLabel,
     admin |-> [grid |-> FALSE, form |-> TRUE]]
LFCreatedAt == [name |-> KwCreatedAt, type |-> "datetime", admin |-> [form |-> TRUE]]
LFNoName == [type |-> "blob"]
LFLabelOnly == [label |-> ExplicitLabel, admin |-> [grid |-> TRUE, form |-> FALSE]]

\* The entities tried at one position of the list: nm is the entity's name,
\* target the name of another entity of the list.
LibEntityVariants(nm, target) ==
    { [name |-> nm, fields |-> <<LFTitle>>],
      [name |-> nm, fields |-> <<LFTitle, LFStatus>>,
       relationships |-> <<[target |-> target]>>],
      [name |-> nm, table |-> ExplicitTable, fields |-> <<LFTitle>>,
       relationships |-> <<[target |-> target]>>],
      [name |-> nm, label |-> ExplicitLabel, table |-> ExplicitTable,
       fields |-> <<LFStatus, LFCreatedAt>>,
       admin |-> [menu |-> FALSE], frontend |-> [enabled |-> TRUE],
       multi_store |-> FALSE,
       relationships |-> <<[target |-> target, type |-> "one_to_many"],
                           [target |-> target, junction_table |-> ExplicitJunction]>>],
      [name |-> nm, frontend |-> [enabled |-> TRUE], fields |-> <<LFTitle>>],
      [label |-> ExplicitLabel, table |-> ExplicitTable, fields |-> <<LFTitle>>,
       relationships |-> <<[target |-> target]>>],
      [name |-> nm, fields |-> <<LFCreatedAt, LFNoName>>],
      [name |-> nm],
      [name |-> nm, fields |-> <<LFTitle>>,
       relationships |-> <<[target |-> target, type |-> "has_one"],
                           [type |-> "many_to_many"]>>],
      [name |-> nm, fields |-> <<>>],
      [fields |-> <<LFLabelOnly>>] }

LibEntityLists ==
    UNION {
        {s \in [1..n -> UNION {LibEntityVariants(LibNames[i], LibNames[j]) :
                                  i, j \in 1..Len(LibNames)}] :
            \A i \in 1..n :
                s[i] \in LibEntityVariants(LibNames[i], LibNames[IF i = 1 THEN 2 ELSE 1])}
        : n \in 0..MaxLibEntities}

LibTopKeySets == SUBSET {"name", "namespace", "version"}

LibConfigs ==
    {WithKeys([name |-> NameBlogPost, namespace |-> NsAcme, version |-> "1.0.0",
               entities |-> es], ks \cup {"entities"}) :
        ks \in LibTopKeySets, es \in LibEntityLists}
    \cup
    {WithKeys([name |-> NameBlogPost, namespace |-> NsAcme, version |-> "1.0.0"], ks) :
        ks \in LibTopKeySets}

\* config = json.load(f): the configuration as loaded, nothing applied yet.
InitConfig ==
    /\ lib_pc = "loaded"
    /\ lib_config \in LibConfigs
    /\ lib_calls = 0
    /\ lib_error = "none"
    /\ lib_ret = <<>>
    /\ ModuleIdle
    /\ GeneratorIdle
    /\ IntrospectorIdle

\* A call apply_defaults(config).  The value returned is the dictionary
\* passed, mutated in place; an exception leaves it partly mutated.
ApplyDefaults ==
    /\ lib_pc \in {"loaded", "defaults"}
    /\ lib_calls < MaxCalls
    /\ \E r \in {apply_defaults(lib_config)} :
          /\ lib_config' = r.v
          /\ lib_error' = IF r.ok THEN "none" ELSE "KeyError"
    /\ lib_calls' = lib_calls + 1
    /\ lib_pc' = "defaults"
    /\ UNCHANGED <<genVars, introVars, modVars, lib_ret>>

\* A call validate_config(config).
ValidateConfig ==
    /\ lib_pc \in {"loaded", "defaults"}
    /\ lib_ret' = validate_config(lib_config)
    /\ lib_error' = "none"
    /\ lib_pc' = "validated"
    /\ UNCHANGED <<genVars, introVars, modVars, lib_config, lib_calls>>

NextConfig ==
    \/ ApplyDefaults
    \/ ValidateConfig

SpecConfig == InitConfig /\ [][NextConfig]_vars

(***************************************************************************)
(* Properties of validate_config and apply_defaults.                       *)
(***************************************************************************)

\* The configurations the claim C11 says are accepted.
AcceptableField(field) ==
    /\ "name" \in DOMAIN field
    /\ "type" \in DOMAIN field => field["type"] \in valid_types

AcceptableRelationship(rel) ==
    /\ "target" \in DOMAIN rel
    /\ "type" \in DOMAIN rel => rel["type"] \in {"one_to_many", "many_to_many"}

AcceptableEntity(entity) ==
    /\ "name" \in DOMAIN entity
    /\ "fields" \in DOMAIN entity
    /\ Len(entity["fields"]) >= 1
    /\ \A i \in 1..Len(entity["fields"]) : AcceptableField(entity["fields"][i])
    /\ "relationships" \in DOMAIN entity =>
          \A i \in 1..Len(entity["relationships"]) :
              AcceptableRelationship(entity["relationships"][i])

AcceptableConfig(cfg) ==
    /\ {"name", "namespace", "entities"} \subseteq DOMAIN cfg
    /\ Len(cfg["entities"]) >= 1
    /\ \A i \in 1..Len(cfg["entities"]) : AcceptableEntity(cfg["entities"][i])

SameKeys(old, new, nested) ==
    \A k \in DOMAIN old \ nested : k \in DOMAIN new /\ new[k] = old[k]

SameSub(old, new, k) ==
    k \in DOMAIN old => k \in DOMAIN new /\ SameKeys(old[k], new[k], {})

SameRelationship(old, new) == SameKeys(old, new, {})

SameField(old, new) == SameKeys(old, new, {"admin"}) /\ SameSub(old, new, "admin")

\* The list under key k has kept its length.
SameLength(old, new, k) ==
    k \in DOMAIN old => k \in DOMAIN new /\ Len(new[k]) = Len(old[k])

SameEntity(old, new) ==
    /\ SameKeys(old, new, {"fields", "admin", "frontend", "relationships"})
    /\ SameSub(old, new, "admin")
    /\ SameSub(old, new, "frontend")
    /\ SameLength(old, new, "fields")
    /\ "fields" \in DOMAIN old =>
          \A i \in 1..Len(old["fields"]) : SameField(old["fields"][i], new["fields"][i])
    /\ SameLength(old, new, "relationships")
    /\ "relationships" \in DOMAIN old =>
          \A i \in 1..Len(old["relationships"]) :
              SameRelationship(old["relationships"][i], new["relationships"][i])

SameConfig(old, new) ==
    /\ SameKeys(old, new, {"entities"})
    /\ SameLength(old, new, "entities")
    /\ "entities" \in DOMAIN old =>
          \A i \in 1..Len(old["entities"]) :
              SameEntity(old["entities"][i], new["entities"][i])

\* C12: apply_defaults only adds missing keys: every key present before a
\* call (at top level, in an entity, in a field, in an admin or frontend
\* sub-dictionary, in a relationship) has the same value after it, and a
\* second call changes nothing.
C12_ApplyDefaultsOnlyAdds ==
    [][lib_pc' = "defaults" =>
          /\ SameConfig(lib_config, lib_config')
          /\ lib_pc = "defaults" => lib_config' = lib_config]_vars

\* apply_defaults has been called twice on a configuration that gave
\* explicit values and lacked others.
C12_Witness ==
    /\ lib_pc = "defaults"
    /\ lib_calls = 2
    /\ lib_error = "none"
    /\ lib_config["version"] = "1.0.0"
    /\ Has(lib_config, "entities")
    /\ Len(lib_config["entities"]) = 2
    /\ \E i \in 1..2 : lib_config["entities"][i]["label"] = ExplicitLabel
    /\ \E i \in 1..2 : lib_config["entities"][i]["label"] # ExplicitLabel

\* The many_to_many relationships of entity a that target entity b and were
\* given no junction_table of their own.
JunctionsBetween(a, b) ==
    {a["relationships"][i]["junction_table"] :
        i \in {i \in 1..Len(Get(a, "relationships", <<>>)) :
                 /\ Get(a["relationships"][i], "target", <<>>) = b["name"]
                 /\ a["relationships"][i]["type"] = "many_to_many"
                 /\ a["relationships"][i]["junction_table"] # ExplicitJunction}}

\* C13: for a many_to_many relationship between two entities A and B with
\* no explicit junction_table, apply_defaults assigns the same
\* junction_table whether it is declared on A targeting B or on B
\* targeting A.
C13_JunctionTableSymmetric ==
    (lib_pc = "defaults" /\ lib_error = "none" /\ Has(lib_config, "entities")) =>
        \A i, j \in 1..Len(lib_config["entities"]) :
            (/\ i # j
             /\ Has(lib_config["entities"][i], "name")
             /\ Has(lib_config["entities"][j], "name"))
            => \A x \in JunctionsBetween(lib_config["entities"][i], lib_config["entities"][j]),
                  y \in JunctionsBetween(lib_config["entities"][j], lib_config["entities"][i]) :
                  x = y

(***************************************************************************)
(* Further properties of the generator run.                                *)
(***************************************************************************)

\* C14: the namespace generate_module runs under, when started from the
\* command line, always has the PascalCase format (alphanumeric apart from
\* underscores, first character upper-case), whether it comes from the
\* argument or from any path through prompt_for_namespace.
C14_NamespacePascalCase ==
    called => ValidNamespaceFormat(config["namespace"])

\* C15: with an empty entity list generate_module completes without error,
\* having written the declaration, config.xml, adminhtml.xml, the helper and
\* the layouts and no setup script; it never stops with an error after some
\* files have been written.
C15_EmptyEntityListCompletes ==
    (called /\ pc = "exit" /\ Len(Entities(config)) = 0 /\ written # <<>>) =>
        /\ error = "success"
        /\ {1, 2, 3, 4, 8, 9} \subseteq StagesOf(written)
        /\ 10 \notin StagesOf(written)

(***************************************************************************)
(* generate_module in detail: the relationships it selects, the entity it  *)
(* generates URL-rewrite events and an observer for, the admin grid and    *)
(* form of each entity, and the tables of the setup script.  The steps in  *)
(* between (followed in Spec above) are left out here.                     *)
(***************************************************************************)
MaxModEntities == 2

MTitle == [name |-> "title"]
MUrlKey == [name |-> "url_key", admin |-> [grid |-> FALSE, form |-> FALSE]]
MStatus == [name |-> "status", admin |-> [grid |-> TRUE]]
MCreatedAt == [name |-> "created_at", type |-> "datetime",
               admin |-> [grid |-> TRUE, form |-> TRUE]]
MTagId == [name |-> "tag_id", admin |-> [grid |-> FALSE, form |-> TRUE]]
MPostId == [name |-> "post_id"]

ModNames == {"Post", "tag", "author"}

ModEntityVariants(nm) ==
    { [name |-> nm, fields |-> <<MTitle>>],
      [name |-> nm, fields |-> <<MUrlKey, MTitle, MStatus>>, multi_store |-> TRUE],
      [name |-> nm, fields |-> <<MCreatedAt, MTagId>>],
      [name |-> nm, fields |-> <<MPostId, MTitle>>, multi_store |-> FALSE] }

ModEntities == UNION {ModEntityVariants(nm) : nm \in ModNames}

ModEntityLists == UNION {[1..n -> ModEntities] : n \in 0..MaxModEntities}

\* The top-level "relationships" of a configuration.
ModRelationships ==
    { <<>>,
      <<[entity1 |-> "Post", entity2 |-> "tag", type |-> "many_to_many"]>>,
      <<[entity1 |-> "Post", entity2 |-> "tag", type |-> "one_to_many"]>>,
      <<[entity1 |-> "Post", entity2 |-> "category", type |-> "many_to_many"]>>,
      <<[entity1 |-> "tag", entity2 |-> "Post"],
        [entity1 |-> "author", entity2 |-> "Post", type |-> "many_to_many"]>> }

ModConfigs ==
    {[name |-> "Blog", module |-> "Blog", entities |-> es] : es \in ModEntityLists}
    \cup {[name |-> "Blog", module |-> "Blog", entities |-> es, relationships |-> rs]
          : es \in ModEntityLists, rs \in ModRelationships}

\* Mutant: 'author' is paired like the other related entities.
RelatedEntities_with_author == <<"category", "tag", "author">>

\* Lines 91-100: the related entities a main entity is paired with; 'author'
\* is in related_entities (line 92) and skipped at line 99.
RelatedEntities == SelectSeq(<<"category", "tag", "author">>, LAMBDA r : r # "author")

\* Line 91.
MainEntities == <<"post", "product", "item", "article">>

\* generate-module.py detect_relationships, lines 82-102.
detect_relationships(entities) ==
    FlattenSeq([m \in 1..Len(MainEntities) |->
        IF \E i \in 1..Len(entities) : Lower(entities[i]["name"]) = MainEntities[m]
        THEN SelectSeq([r \in 1..Len(RelatedEntities) |->
                           <<MainEntities[m], RelatedEntities[r]>>],
                       LAMBDA rel : \E i \in 1..Len(entities) :
                                       Lower(entities[i]["name"]) = rel[2])
        ELSE <<>>])

\* Line 268: the relationships listed, as pairs of lowercased names.
RelationshipPairs(config_relationships) ==
    [i \in 1..Len(config_relationships) |->
        <<Lower(config_relationships[i]["entity1"]),
          Lower(config_relationships[i]["entity2"])>>]

\* Line 268: the many_to_many relationships of the configuration, as pairs.
ConfigRelationships(config_relationships) ==
    RelationshipPairs(
        SelectSeq(config_relationships,
                  LAMBDA rel : Get(rel, "type", "") = "many_to_many"))

\* Lines 265-275.
SelectedRelationships(cfg) ==
    IF Get(cfg, "relationships", <<>>) # <<>>
    THEN ConfigRelationships(cfg["relationships"])
    ELSE detect_relationships(Entities(cfg))

InitModule ==
    /\ m_pc = "config_xml"
    /\ m_config \in ModConfigs
    /\ relationships = <<>>
    /\ url_rewrite_events = <<>>
    /\ observer = <<>>
    /\ m_idx = 0
    /\ grid_columns = <<>>
    /\ form_fields = <<>>
    /\ setup_script = <<>>
    /\ LibIdle
    /\ GeneratorIdle
    /\ IntrospectorIdle

\* Lines 264-279.
SelectRelationships ==
    /\ m_pc = "config_xml"
    /\ relationships' = SelectedRelationships(m_config)
    /\ m_pc' = "events"
    /\ UNCHANGED <<libVars, genVars, introVars, m_config, url_rewrite_events, observer, m_idx, grid_columns,
                   form_fields, setup_script>>

\* Lines 290-307: URL-rewrite events are added for the first of the
\* entities collected, when there is one.
AddUrlRewriteEvents ==
    /\ m_pc = "events"
    /\ url_rewrite_events' =
          IF entities_with_url_key(Entities(m_config)) # <<>>
          THEN <<Head(entities_with_url_key(Entities(m_config))).entity["name"]>>
          ELSE <<>>
    /\ m_pc' = "entities"
    /\ UNCHANGED <<libVars, genVars, introVars, m_config, relationships, observer,
                   m_idx, grid_columns, form_fields, setup_script>>

\* admin_generator.py lines 306-312.
ShowInGrid(field, entity_name) ==
    \/ Get(Get(field, "admin", EmptyDict), "grid", FALSE)
    \/ field["name"] = IdFieldName(entity_name)

\* admin_generator.py lines 303-365: the names of the grid columns.
GridColumns(entity) ==
    [i \in 1..Len(SelectSeq(Get(entity, "fields", <<>>),
                            LAMBDA f : ShowInGrid(f, entity["name"]))) |->
        SelectSeq(Get(entity, "fields", <<>>),
                  LAMBDA f : ShowInGrid(f, entity["name"]))[i]["name"]]

\* admin_generator.py lines 503-511.
ShowInForm(field, entity_name) ==
    /\ field["name"] \notin {IdFieldName(entity_name), "created_at", "updated_at"}
    /\ Get(Get(field, "admin", EmptyDict), "form", TRUE)

\* admin_generator.py lines 499-634: the names of the form inputs.
FormFields(entity) ==
    [i \in 1..Len(SelectSeq(Get(entity, "fields", <<>>),
                            LAMBDA f : ShowInForm(f, entity["name"]))) |->
        SelectSeq(Get(entity, "fields", <<>>),
                  LAMBDA f : ShowInForm(f, entity["name"]))[i]["name"]]

\* Lines 481-503 and 581: generate_admin_blocks for the next entity.
GenerateAdminBlocks ==
    /\ m_pc = "entities"
    /\ m_idx < Len(Entities(m_config))
    /\ grid_columns' = Append(grid_columns, GridColumns(Entities(m_config)[m_idx + 1]))
    /\ form_fields' = Append(form_fields, FormFields(Entities(m_config)[m_idx + 1]))
    /\ m_idx' = m_idx + 1
    /\ UNCHANGED <<libVars, genVars, introVars, m_pc, m_config, relationships,
                   url_rewrite_events, observer, setup_script>>

\* Lines 511-522: the observer is written for the first of the entities
\* collected, when there is one.
GenerateUrlRewriteObserver ==
    /\ m_pc = "entities"
    /\ m_idx = Len(Entities(m_config))
    /\ observer' =
          IF entities_with_url_key(Entities(m_config)) # <<>>
          THEN <<Head(entities_with_url_key(Entities(m_config))).entity["name"]>>
          ELSE <<>>
    /\ m_pc' = "setup"
    /\ UNCHANGED <<libVars, genVars, introVars, m_config, relationships,
                   url_rewrite_events, m_idx, grid_columns, form_fields,
                   setup_script>>

(***************************************************************************)
(* generate_setup_script, lines 660-842.  A table of the script is its     *)
(* alias (the pieces of the f-string after '{namespace}_{module}/', which  *)
(* is the same for every table of a script), the names of its columns in   *)
(* the order they are added, and the aliases its foreign keys reference.   *)
(***************************************************************************)
CoreStore == <<"core/store">>

FieldNames(fields) == [i \in 1..Len(fields) |-> fields[i]["name"]]

\* Lines 679-682: a column per field, the primary key field skipped.
FieldColumns(fields, id_field) ==
    FieldNames(SelectSeq(fields, LAMBDA field : field["name"] # id_field))

\* Lines 684-713: the standard columns added after the fields.
StandardColumns(field_names, idx) ==
    (IF idx = 0 /\ ~IsIn(field_names, "url_key") THEN <<"url_key">> ELSE <<>>)
    \o (IF ~IsIn(field_names, "status") THEN <<"status">> ELSE <<>>)
    \o <<"created_at", "updated_at">>

\* Lines 663-726: the table of an entity.
EntityTableOf(entity, idx) ==
    [table |-> <<Lower(entity["name"])>>,
     columns |-> <<IdFieldName(Lower(entity["name"]))>>
                 \o FieldColumns(Get(entity, "fields", <<>>),
                                 IdFieldName(Lower(entity["name"])))
                 \o StandardColumns(FieldNames(Get(entity, "fields", <<>>)), idx),
     references |-> <<>>]

\* Lines 727-776: the table of a relationship.
RelationshipTable(rel) ==
    [table |-> <<rel[1], "_", rel[2]>>,
     columns |-> <<IdFieldName(rel[1]), IdFieldName(rel[2]), "position">>,
     references |-> << <<rel[1]>>, <<rel[2]>> >>]

\* Lines 778-825: the store table of an entity with multi_store.
StoreTable(entity) ==
    [table |-> <<Lower(entity["name"]), "_store">>,
     columns |-> <<IdFieldName(Lower(entity["name"])), "store_id">>,
     references |-> << <<Lower(entity["name"])>>, CoreStore >>]

generate_setup_script(entities, rels) ==
    [i \in 1..Len(entities) |-> EntityTableOf(entities[i], i - 1)]
    \o [i \in 1..Len(rels) |-> RelationshipTable(rels[i])]
    \o [i \in 1..Len(SelectSeq(entities, LAMBDA e : Get(e, "multi_store", FALSE))) |->
           StoreTable(SelectSeq(entities, LAMBDA e : Get(e, "multi_store", FALSE))[i])]

\* Lines 545-552: the setup script is written when there are entities.
GenerateSetupScript ==
    /\ m_pc = "setup"
    /\ setup_script' =
          IF Entities(m_config) # <<>>
          THEN generate_setup_script(Entities(m_config), relationships)
          ELSE <<>>
    /\ m_pc' = "done"
    /\ UNCHANGED <<libVars, genVars, introVars, m_config, relationships,
                   url_rewrite_events, observer, m_idx, grid_columns, form_fields>>

NextModule ==
    \/ SelectRelationships
    \/ AddUrlRewriteEvents
    \/ GenerateAdminBlocks
    \/ GenerateUrlRewriteObserver
    \/ GenerateSetupScript

SpecModule == InitModule /\ [][NextModule]_vars

(***************************************************************************)
(* Properties of the parts of generate_module followed in detail.          *)
(***************************************************************************)

C17_NoColumnTwice ==
    \A t \in 1..Len(setup_script) :
        t <= Len(Entities(m_config)) =>
            \A i, j \in 1..Len(setup_script[t].columns) :
                i # j => setup_script[t].columns[i] # setup_script[t].columns[j]

\* C18: every table a foreign key of the setup script references, core/store
\* apart, is created earlier in the same script.
C18_ReferencedTablesCreatedEarlier ==
    \A t \in 1..Len(setup_script) :
        \A r \in 1..Len(setup_script[t].references) :
            setup_script[t].references[r] # CoreStore =>
                \E u \in 1..(t - 1) :
                    setup_script[u].table = setup_script[t].references[r]

\* C19: the relationships are the many_to_many ones of the configuration,
\* lowercased, when it lists any; otherwise they are exactly the pairs of a
\* main entity (post, product, item, article) with category or tag whose two
\* names are among the lowercased entity names, and never include 'author'.
C19_RelationshipsSelected ==
    m_pc # "config_xml" =>
        IF Get(m_config, "relationships", <<>>) # <<>>
        THEN /\ Len(relationships) =
                   Cardinality({i \in 1..Len(m_config["relationships"]) :
                       /\ Has(m_config["relationships"][i], "type")
                       /\ m_config["relationships"][i]["type"] = "many_to_many"})
             /\ \A k \in 1..Len(relationships) :
                   \E i \in 1..Len(m_config["relationships"]) :
                       /\ Has(m_config["relationships"][i], "type")
                       /\ m_config["relationships"][i]["type"] = "many_to_many"
                       /\ relationships[k] =
                             <<Lower(m_config["relationships"][i]["entity1"]),
                               Lower(m_config["relationships"][i]["entity2"])>>
        ELSE /\ {relationships[k] : k \in 1..Len(relationships)} =
                   {p \in {"post", "product", "item", "article"} \X {"category", "tag"} :
                       \A n \in 1..2 : \E i \in 1..Len(Entities(m_config)) :
                           Lower(Entities(m_config)[i]["name"]) = p[n]}
             /\ \A k, l \in 1..Len(relationships) :
                   k # l => relationships[k] # relationships[l]
             /\ \A k \in 1..Len(relationships) :
                   "author" \notin {relationships[k][1], relationships[k][2]}

\* Relationships detected for a configuration that lists none and has a
\* post, and a tag or an author, among its entities.
C19_Witness ==
    /\ m_pc = "done"
    /\ ~Has(m_config, "relationships")
    /\ Len(Entities(m_config)) = 2
    /\ Entities(m_config)[1]["name"] = "Post"
    /\ Entities(m_config)[2]["name"] = "tag"
    /\ relationships = << <<"post", "tag">> >>

\* C20: a field with an explicit admin.grid (admin.form) setting has a grid
\* column (a form input) exactly when the setting is true.
C20_AdminSettingsHonoured ==
    \A e \in 1..Len(grid_columns) :
        \A f \in 1..Len(Entities(m_config)[e]["fields"]) :
            /\ Has(Get(Entities(m_config)[e]["fields"][f], "admin", EmptyDict), "grid") =>
                  (Entities(m_config)[e]["fields"][f]["admin"]["grid"]
                     <=> IsIn(grid_columns[e], Entities(m_config)[e]["fields"][f]["name"]))
            /\ Has(Get(Entities(m_config)[e]["fields"][f], "admin", EmptyDict), "form") =>
                  (Entities(m_config)[e]["fields"][f]["admin"]["form"]
                     <=> IsIn(form_fields[e], Entities(m_config)[e]["fields"][f]["name"]))

====
